---- MODULE Spec2Model ----
(***************************************************************************)
(* Model of python/ee/data.py: the module-level configuration singleton    *)
(* (initialize, reset), the tile URL helper (getTileUrl) and the generic   *)
(* request/response routine (send_).                                       *)
(*                                                                         *)
(* Python strings that the code only stores, compares or concatenates are  *)
(* atomic TLA+ strings.  Strings that the code converts (float(), '%d',    *)
(* urlencode) are sequences of one-character strings, so the conversions   *)
(* are computed and not assumed.                                           *)
(***************************************************************************)
EXTENDS Integers, Sequences, FiniteSets, TLC

VARIABLES credentials, api_base_url, tile_base_url, initialized, supplied, call

vars == <<credentials, api_base_url, tile_base_url, initialized, supplied, call>>

(* ------------------------------ bounds --------------------------------- *)

\* Largest zoom level passed to getTileUrl.
MaxZoom == 2

\* Tile rows passed to getTileUrl are 0..MaxY.
MaxY == 1

(* ---------------------------- constants -------------------------------- *)

\* Python's None.
None == "None"

DEFAULT_DEADLINE == 30

DEFAULT_API_BASE_URL == "https://earthengine.googleapis.com/api"

DEFAULT_TILE_BASE_URL == "https://earthengine.googleapis.com/"

(* -------------------------- input domains ------------------------------ *)

\* OAuth2 credential objects a caller may pass to initialize().
Credentials == {"credA"}

\* Base URLs a caller may pass to initialize().
ApiUrls == {"http://api.X1", "http://api.X2"}

TileUrls == {"http://tile.Y"}

\* Map IDs (the dictionaries returned by getMapId) passed to getTileUrl.
MapIds == {[mapid |-> "m1", token |-> "t1"]}

\* Tile columns passed to getTileUrl: below 0, in range and beyond 2^z.
TileXs == -(2^MaxZoom + 1) .. (2^MaxZoom + 1)

(* ------------------------- initialize / reset -------------------------- *)

\* The module globals as one record.
Config == [credentials |-> credentials, api_base_url |-> api_base_url,
           tile_base_url |-> tile_base_url, initialized |-> initialized]

\* initialize() without the `elif not _initialized` tests: an argument left
\* out always gets the default.
InitializeAlwaysDefault(cfg, c, a, t) ==
    [credentials   |-> IF c # None THEN c ELSE cfg.credentials,
     api_base_url  |-> IF a # None THEN a ELSE DEFAULT_API_BASE_URL,
     tile_base_url |-> IF t # None THEN t ELSE DEFAULT_TILE_BASE_URL,
     initialized   |-> TRUE]

\* initialize() without the `if credentials is not None` test.
InitializeAssignsCredentials(cfg, c, a, t) ==
    [credentials   |-> c,
     api_base_url  |-> IF a # None THEN a
                       ELSE IF ~cfg.initialized THEN DEFAULT_API_BASE_URL
                       ELSE cfg.api_base_url,
     tile_base_url |-> IF t # None THEN t
                       ELSE IF ~cfg.initialized THEN DEFAULT_TILE_BASE_URL
                       ELSE cfg.tile_base_url,
     initialized   |-> TRUE]

\* The globals after initialize(c, a, t) run from the globals cfg.
InitializeFrom(cfg, c, a, t) ==
    [credentials   |-> IF c # None THEN c ELSE cfg.credentials,
     api_base_url  |-> IF a # None THEN a
                       ELSE IF ~cfg.initialized THEN DEFAULT_API_BASE_URL
                       ELSE cfg.api_base_url,
     tile_base_url |-> IF t # None THEN t
                       ELSE IF ~cfg.initialized THEN DEFAULT_TILE_BASE_URL
                       ELSE cfg.tile_base_url,
     initialized   |-> TRUE]

\* reset() without `_initialized = False`.
ResetKeepsInitialized ==
    [credentials |-> None, api_base_url |-> None, tile_base_url |-> None,
     initialized |-> TRUE]

\* The globals after reset().
ResetConfig ==
    [credentials |-> None, api_base_url |-> None, tile_base_url |-> None,
     initialized |-> FALSE]

\* Assignment of a configuration record to the module globals.
SetConfig(cfg) ==
    /\ credentials'   = cfg.credentials
    /\ api_base_url'  = cfg.api_base_url
    /\ tile_base_url' = cfg.tile_base_url
    /\ initialized'   = cfg.initialized

\* History of the arguments explicitly supplied to initialize() since the
\* last reset(): a field keeps its value when the argument is None.
NoneSupplied == [credentials |-> None, api_base_url |-> None, tile_base_url |-> None]

Supply(s, c, a, t) ==
    [credentials   |-> IF c # None THEN c ELSE s.credentials,
     api_base_url  |-> IF a # None THEN a ELSE s.api_base_url,
     tile_base_url |-> IF t # None THEN t ELSE s.tile_base_url]

Init ==
    /\ credentials = None
    /\ api_base_url = None
    /\ tile_base_url = None
    /\ initialized = FALSE
    /\ supplied = NoneSupplied
    /\ call = [op |-> "none"]

Initialize ==
    \E c \in Credentials \cup {None}, a \in ApiUrls \cup {None},
       t \in TileUrls \cup {None} :
        /\ SetConfig(InitializeFrom(Config, c, a, t))
        /\ supplied' = Supply(supplied, c, a, t)
        /\ call' = [op |-> "initialize", pre |-> Config, after |-> call.op,
                    credentials |-> c, api_base_url |-> a, tile_base_url |-> t]

Reset ==
    /\ SetConfig(ResetConfig)
    /\ supplied' = NoneSupplied
    /\ call' = [op |-> "reset", pre |-> Config]

(* --------------------------- number formatting ------------------------- *)

Digits == <<"0", "1", "2", "3", "4", "5", "6", "7", "8", "9">>

RECURSIVE FormatNat(_)
FormatNat(n) ==
    IF n < 10 THEN <<Digits[n + 1]>>
    ELSE Append(FormatNat(n \div 10), Digits[(n % 10) + 1])

\* Python's '%d' % n and str(n) for an integer n: the decimal characters.
FormatD(n) == IF n < 0 THEN <<"-">> \o FormatNat(-n) ELSE FormatNat(n)

DigitValue(c) == CHOOSE d \in 0..9 : Digits[d + 1] = c

IsDigit(c) == \E d \in 0..9 : Digits[d + 1] = c

RECURSIVE ParseNat(_)
ParseNat(cs) ==
    IF Len(cs) = 0 THEN 0
    ELSE 10 * ParseNat(SubSeq(cs, 1, Len(cs) - 1)) + DigitValue(cs[Len(cs)])

\* The integer a decimal character sequence denotes.
ParseD(cs) ==
    IF Len(cs) > 0 /\ cs[1] = "-" THEN -ParseNat(Tail(cs)) ELSE ParseNat(cs)

(* ------------------------------ getTileUrl ----------------------------- *)

\* Python's a % b for b > 0: the result has the sign of the divisor.
PyMod(a, b) == a - b * (a \div b)

\* getTileUrl without `x %= width`: only negative columns are shifted.
TileXNoModulo(x, z) ==
    LET width == 2^z
    IN  IF x < 0 THEN x + width ELSE x

\* The tile column written into the URL (lines 147-150).
TileX(x, z) ==
    LET width == 2^z
        x1    == PyMod(x, width)
    IN  IF x1 < 0 THEN x1 + width ELSE x1

\* '%s/map/%s/%d/%d/%d?token=%s' % (...), as the sequence of its pieces.
TileUrl(base, mapid, x, y, z) ==
    <<base, "/map/", mapid.mapid, "/", FormatD(z), "/", FormatD(TileX(x, z)),
      "/", FormatD(y), "?token=", mapid.token>>

GetTileUrl ==
    \E mapid \in MapIds, x \in TileXs, y \in 0..MaxY, z \in 0..MaxZoom :
        /\ call' = [op |-> "getTileUrl",
                    mapid |-> mapid, x |-> x, y |-> y, z |-> z,
                    result |-> TileUrl(tile_base_url, mapid, x, y, z)]
        /\ UNCHANGED <<credentials, api_base_url, tile_base_url, initialized, supplied>>

(* ------------------------------ Python values -------------------------- *)

\* Parameter values: Python ints and strs (a str is its characters).
PInt(n) == [t |-> "int", n |-> n]

PStr(cs) == [t |-> "str", s |-> cs]

\* str(v) for a parameter value.
PyStr(v) == IF v.t = "int" THEN FormatD(v.n) ELSE v.s

\* float(v) for an int or a numeric str, as the number it denotes.
PyFloat(v) == IF v.t = "int" THEN v.n ELSE ParseD(v.s)

\* dict.get(key, default) and the dict left behind by dict.pop(key, default).
DictGet(d, key, default) == IF key \in DOMAIN d THEN d[key] ELSE default

DictPop(d, key) == [k \in DOMAIN d \ {key} |-> d[k]]

\* urllib.quote_plus on one character of the alphabet used here.
QuoteChar(c) ==
    IF c = " " THEN <<"+">>
    ELSE IF c = "/" THEN <<"%", "2", "F">>
    ELSE <<c>>

RECURSIVE QuotePlus(_)
QuotePlus(cs) ==
    IF Len(cs) = 0 THEN <<>> ELSE QuoteChar(Head(cs)) \o QuotePlus(Tail(cs))

\* Iteration order of a parameter dict (fixed for a given dict).
KeyOrder == <<"deadline", "id", "json_format">>

\* urllib.urlencode(params): one key=value pair per item, values quoted.
UrlEncode(params) ==
    LET keys == SelectSeq(KeyOrder, LAMBDA k : k \in DOMAIN params)
    IN  [i \in 1..Len(keys) |->
            [k |-> keys[i], v |-> QuotePlus(PyStr(params[keys[i]]))]]

\* JSON values produced by json.loads.
JStr(s) == [t |-> "str", s |-> s]

JDict(m) == [t |-> "dict", m |-> m]

JList(items) == [t |-> "list", items |-> items]

EmptyMap == [k \in {} |-> None]

\* Response bodies the server may send, as literal text.
Bodies ==
    {"{}",
     "{\"data\": {\"id\": \"abc\"}}",
     "{\"error\": \"bad request\"}",
     "{\"data\": \"d\", \"error\": \"quota\"}",
     "{\"other\": \"x\"}",
     "[\"error\"]",
     "<html>"}

NotJson == [t |-> "invalid"]

\* What json.loads yields on each body (NotJson: it raises ValueError).
JsonLoads(text) ==
    CASE text = "{}" -> JDict(EmptyMap)
      [] text = "{\"data\": {\"id\": \"abc\"}}" ->
            JDict([data |-> JDict([id |-> JStr("abc")])])
      [] text = "{\"error\": \"bad request\"}" ->
            JDict([error |-> JStr("bad request")])
      [] text = "{\"data\": \"d\", \"error\": \"quota\"}" ->
            JDict([data |-> JStr("d"), error |-> JStr("quota")])
      [] text = "{\"other\": \"x\"}" -> JDict([other |-> JStr("x")])
      [] text = "[\"error\"]" -> JList(<<JStr("error")>>)
      [] OTHER -> NotJson

\* Python's `key in v` for a dict (its keys) or a list (its elements).
PyIn(key, v) ==
    IF v.t = "dict" THEN key \in DOMAIN v.m
    ELSE \E i \in 1..Len(v.items) : v.items[i] = JStr(key)

(* ------------------------------- outcomes ------------------------------ *)

Running == [kind |-> "running"]

Return(value) == [kind |-> "return", value |-> value]

\* ee_exception.EEException(prefix + detail), or EEException(detail) when
\* the prefix is empty.
EEException(prefix, detail) ==
    [kind |-> "EEException", message |-> <<prefix, detail>>]

TypeError == [kind |-> "TypeError"]

ValueError == [kind |-> "ValueError"]

\* raise EEException(prefix + v): str + str concatenates, str + anything
\* else raises TypeError while the argument is being built.
RaiseConcat(prefix, v) ==
    IF v.t = "str" THEN EEException(prefix, v.s) ELSE TypeError

\* v[key]: only a dict can be indexed by a str.
Subscript(v, key) == IF v.t = "dict" THEN Return(v.m[key]) ELSE TypeError

(* -------------------------------- send_ -------------------------------- *)

\* An optional value: None or a value.
Nothing == <<>>

Some(x) == <<x>>

\* Endpoints, parameter dicts, methods and server replies used as inputs.
\* A deadline is a number of seconds, given as an int or as a numeric str,
\* so float() at line 329 does not raise.
Paths == {"/info"}

ParamSets ==
    {EmptyMap,
     [deadline |-> PInt(5)],
     [deadline |-> PStr(<<"1", "2">>), id |-> PStr(<<"a", " ", "/">>),
      json_format |-> PStr(<<"v", "2">>)]}

Methods == {"GET", "POST", "PUT"}

Statuses == {200, 500}

\* http.request either raises HttpLib2Error or returns (response, content).
Replies ==
    {[kind |-> "HttpLib2Error", message |-> "timed out"]}
    \cup [kind : {"response"}, status : Statuses, content : Bodies]

\* send_ reading the deadline with params.get instead of params.pop.
PrepareKeepsDeadline(cfg0, path, params, method, raw) ==
    LET cfg == InitializeFrom(cfg0, None, None, None)
    IN  [cfg      |-> cfg,
         method   |-> method,
         raw      |-> raw,
         url      |-> [base |-> cfg.api_base_url, path |-> path, query |-> Nothing],
         timeout  |-> PyFloat(DictGet(params, "deadline", PInt(DEFAULT_DEADLINE))),
         payload  |-> Some(UrlEncode(params)),
         headers  |-> EmptyMap,
         events   |-> <<>>,
         requests |-> <<>>,
         outcome  |-> Running]

\* Lines 326-333: implicit initialize(), URL, deadline, payload, transport.
Prepare(cfg0, path, params, method, raw) ==
    LET cfg == InitializeFrom(cfg0, None, None, None)
    IN  [cfg      |-> cfg,
         method   |-> method,
         raw      |-> raw,
         url      |-> [base |-> cfg.api_base_url, path |-> path, query |-> Nothing],
         timeout  |-> PyFloat(DictGet(params, "deadline", PInt(DEFAULT_DEADLINE))),
         payload  |-> Some(UrlEncode(DictPop(params, "deadline"))),
         headers  |-> EmptyMap,
         events   |-> <<>>,
         requests |-> <<>>,
         outcome  |-> Running]

\* send_ authorizing only once the method has been accepted.
AuthorizeAfterMethodCheck(f) ==
    IF f.cfg.credentials # None /\ f.method \in {"GET", "POST"}
    THEN [f EXCEPT !.events = Append(@, "authorize")]
    ELSE f

\* Lines 334-335: if _credentials: http = _credentials.authorize(http).
Authorize(f) ==
    IF f.cfg.credentials # None
    THEN [f EXCEPT !.events = Append(@, "authorize")]
    ELSE f

\* send_ with a plain `else` for POST: no method is rejected.
CheckMethodElsePost(f) ==
    IF f.method = "GET"
    THEN [f EXCEPT !.url.query = f.payload, !.payload = Nothing]
    ELSE [f EXCEPT !.headers =
            [k \in {"Content-type"} |-> "application/x-www-form-urlencoded"]]

\* Lines 337-343: GET moves the payload into the URL, POST sets the
\* content type, anything else raises.
CheckMethod(f) ==
    IF f.method = "GET"
    THEN [f EXCEPT !.url.query = f.payload, !.payload = Nothing]
    ELSE IF f.method = "POST"
    THEN [f EXCEPT !.headers =
            [k \in {"Content-type"} |-> "application/x-www-form-urlencoded"]]
    ELSE [f EXCEPT !.outcome = EEException("Unexpected request method: ", f.method)]

\* send_ returning raw content before looking at the status.
CheckResponseRawFirst(raw, status, content) ==
    IF raw THEN Return(content)
    ELSE IF status # 200
    THEN EEException("Server returned HTTP code: ", FormatD(status))
    ELSE LET parsed == JsonLoads(content)
         IN  IF parsed = NotJson THEN ValueError
             ELSE IF PyIn("error", parsed) THEN
                 LET e == Subscript(parsed, "error")
                 IN  IF e.kind = "return" THEN EEException("", e.value) ELSE e
             ELSE IF ~PyIn("data", parsed) THEN
                 RaiseConcat("Missing data in response: ", parsed)
             ELSE Subscript(parsed, "data")

\* send_ looking for `data` before `error`.
CheckResponseDataFirst(raw, status, content) ==
    IF status # 200
    THEN EEException("Server returned HTTP code: ", FormatD(status))
    ELSE IF raw THEN Return(content)
    ELSE LET parsed == JsonLoads(content)
         IN  IF parsed = NotJson THEN ValueError
             ELSE IF PyIn("data", parsed) THEN Subscript(parsed, "data")
             ELSE IF PyIn("error", parsed) THEN
                 LET e == Subscript(parsed, "error")
                 IN  IF e.kind = "return" THEN EEException("", e.value) ELSE e
             ELSE RaiseConcat("Missing data in response: ", parsed)

\* Lines 351-363: status check, raw return, JSON envelope.
CheckResponse(raw, status, content) ==
    IF status # 200
    THEN EEException("Server returned HTTP code: ", FormatD(status))
    ELSE IF raw THEN Return(content)
    ELSE LET parsed == JsonLoads(content)
         IN  IF parsed = NotJson THEN ValueError
             ELSE IF PyIn("error", parsed) THEN
                 LET e == Subscript(parsed, "error")
                 IN  IF e.kind = "return" THEN EEException("", e.value) ELSE e
             ELSE IF ~PyIn("data", parsed) THEN
                 RaiseConcat("Missing data in response: ", parsed)
             ELSE Subscript(parsed, "data")

\* Lines 345-363: the HTTP request and the handling of its reply.  Not
\* reached when an earlier statement raised.
Request(f, reply) ==
    IF f.outcome # Running THEN f
    ELSE [f EXCEPT
            !.events   = Append(@, "request"),
            !.requests = Append(@, [url |-> f.url, method |-> f.method,
                                    body |-> f.payload, headers |-> f.headers,
                                    timeout |-> f.timeout]),
            !.outcome  =
                IF reply.kind = "HttpLib2Error"
                THEN EEException("Unexpected HTTP error: ", reply.message)
                ELSE CheckResponse(f.raw, reply.status, reply.content)]

\* send_(path, params, opt_method, opt_raw) run from the globals cfg0, with
\* reply the answer of the transport should a request be made.
SendCall(cfg0, path, params, method, raw, reply) ==
    Request(CheckMethod(Authorize(Prepare(cfg0, path, params, method, raw))), reply)

Send ==
    \E path \in Paths, params \in ParamSets, method \in Methods,
       raw \in BOOLEAN, reply \in Replies :
        \E f \in {SendCall(Config, path, params, method, raw, reply)} :
            /\ SetConfig(f.cfg)
            /\ supplied' = Supply(supplied, None, None, None)
            /\ call' = [op |-> "send", pre |-> Config,
                        path |-> path, params |-> params, method |-> method,
                        raw |-> raw,
                        reply |-> IF Len(f.requests) = 0 THEN Nothing ELSE Some(reply),
                        timeout |-> f.timeout, events |-> f.events,
                        requests |-> f.requests, outcome |-> f.outcome]

\* Configuration calls and API calls.
Next == Initialize \/ Reset \/ Send

Spec == Init /\ [][Next]_vars

\* Configuration calls and tile URL construction.
TileNext == Initialize \/ Reset \/ GetTileUrl

TileSpec == Init /\ [][TileNext]_vars

(* ------------------------------ properties ----------------------------- *)

IsSend == call.op = "send"

\* The send made an HTTP request and the transport returned a response.
GotResponse == IsSend /\ Len(call.reply) = 1 /\ call.reply[1].kind = "response"

Status == call.reply[1].status

Content == call.reply[1].content

IsInvalidMethodError(o, method) ==
    /\ o.kind = "EEException"
    /\ o.message[1] = "Unexpected request method: "
    /\ o.message[2] = method

\* C1: a call of initialize on an initialized configuration overwrites
\* exactly the fields whose argument is not None, leaves the other fields
\* as they were, and leaves initialized true.
C1_InitializeOverridesOnlySupplied ==
    [][(call'.op = "initialize" /\ initialized) =>
        /\ credentials' = IF call'.credentials # None
                          THEN call'.credentials ELSE credentials
        /\ api_base_url' = IF call'.api_base_url # None
                           THEN call'.api_base_url ELSE api_base_url
        /\ tile_base_url' = IF call'.tile_base_url # None
                            THEN call'.tile_base_url ELSE tile_base_url
        /\ initialized']_vars

\* initialize(api_base_url=X1) run after the tile URL had been set to Y.
C1_Witness ==
    /\ call.op = "initialize"
    /\ call.pre.initialized
    /\ call.pre.tile_base_url = "http://tile.Y"
    /\ call.pre.api_base_url # "http://api.X1"
    /\ call.api_base_url = "http://api.X1"
    /\ call.tile_base_url = None
    /\ call.credentials = None
    /\ api_base_url = "http://api.X1"
    /\ tile_base_url = "http://tile.Y"

\* C2: reset() leaves the three fields None and initialized false; an
\* initialize() with no arguments that follows it sets both URLs to the
\* defaults, leaves credentials None and sets initialized.
C2_ResetThenDefaults ==
    /\ call.op = "reset" =>
        /\ credentials = None
        /\ api_base_url = None
        /\ tile_base_url = None
        /\ ~initialized
    /\ ( /\ call.op = "initialize"
         /\ call.after = "reset"
         /\ call.credentials = None
         /\ call.api_base_url = None
         /\ call.tile_base_url = None ) =>
        /\ credentials = None
        /\ api_base_url = DEFAULT_API_BASE_URL
        /\ tile_base_url = DEFAULT_TILE_BASE_URL
        /\ initialized

\* initialize() with no arguments right after a reset().
C2_Witness ==
    /\ call.op = "initialize"
    /\ call.after = "reset"
    /\ call.credentials = None
    /\ call.api_base_url = None
    /\ call.tile_base_url = None
    /\ initialized

\* C3: a send whose method is neither GET nor POST fails with the
\* invalid-method error and makes no HTTP request.
C3_InvalidMethodNoRequest ==
    (IsSend /\ call.method \notin {"GET", "POST"}) =>
        /\ IsInvalidMethodError(call.outcome, call.method)
        /\ call.requests = <<>>
        /\ \A i \in 1..Len(call.events) : call.events[i] # "request"

\* A raw PUT with parameters, made with credentials configured.
C3_Witness ==
    /\ IsSend
    /\ call.method = "PUT"
    /\ call.raw
    /\ "deadline" \in DOMAIN call.params
    /\ credentials # None
    /\ call.outcome.kind = "EEException"

\* C4: a response whose status is not 200 makes send fail with the
\* HTTP-status error carrying that code, whatever the body and the raw flag.
C4_Non200IsStatusError ==
    (GotResponse /\ Status # 200) =>
        /\ call.outcome.kind = "EEException"
        /\ call.outcome.message[1] = "Server returned HTTP code: "
        /\ ParseD(call.outcome.message[2]) = Status

\* A raw send answered with status 500 and a well-formed data envelope.
C4_Witness ==
    /\ GotResponse
    /\ Status = 500
    /\ call.raw
    /\ Content = "{\"data\": {\"id\": \"abc\"}}"
    /\ call.outcome.kind = "EEException"

\* C5: a non-raw send answered with status 200 and a JSON object that has
\* neither `data` nor `error` fails with the malformed-envelope error, an
\* EEException carrying the content.
C5_MissingDataIsEEException ==
    ( /\ GotResponse
      /\ Status = 200
      /\ ~call.raw
      /\ JsonLoads(Content).t = "dict"
      /\ "error" \notin DOMAIN JsonLoads(Content).m
      /\ "data" \notin DOMAIN JsonLoads(Content).m ) =>
        /\ call.outcome.kind = "EEException"
        /\ call.outcome.message[1] = "Missing data in response: "

\* C6: a non-raw send answered with status 200 and a JSON object fails
\* with the value of `error` when the object has that field (with or
\* without `data`), and returns the value of `data` when it has `data`
\* and no `error`.
C6_EnvelopeUnwrapped ==
    ( /\ GotResponse
      /\ Status = 200
      /\ ~call.raw
      /\ JsonLoads(Content).t = "dict" ) =>
        LET m == JsonLoads(Content).m
        IN  /\ "error" \in DOMAIN m =>
                /\ call.outcome.kind = "EEException"
                /\ call.outcome.message[1] = ""
                /\ call.outcome.message[2] = m["error"]
            /\ ("data" \in DOMAIN m /\ "error" \notin DOMAIN m) =>
                /\ call.outcome.kind = "return"
                /\ call.outcome.value = m["data"]

\* An envelope with both fields: the error wins.
C6_Witness ==
    /\ GotResponse
    /\ Status = 200
    /\ ~call.raw
    /\ Content = "{\"data\": \"d\", \"error\": \"quota\"}"
    /\ call.outcome.kind = "EEException"
    /\ call.outcome.message[2] = JStr("quota")

\* No key=value pair of an optional encoded payload has the key `deadline`.
NoDeadlineIn(opt) ==
    \A j \in 1..Len(opt) : \A i \in 1..Len(opt[j]) : opt[j][i].k # "deadline"

\* C7: the encoded request of a send (query string or body) never has a
\* `deadline` parameter, and the timeout is the deadline passed in the
\* parameters, or 30 when there is none.
C7_DeadlineConsumed ==
    IsSend =>
        /\ \A r \in 1..Len(call.requests) :
            /\ NoDeadlineIn(call.requests[r].url.query)
            /\ NoDeadlineIn(call.requests[r].body)
            /\ call.requests[r].timeout = call.timeout
        /\ IF "deadline" \in DOMAIN call.params
           THEN LET d == call.params["deadline"]
                IN  /\ d.t = "int" => call.timeout = d.n
                    /\ d.t = "str" => FormatD(call.timeout) = d.s
           ELSE call.timeout = 30

\* A POST with deadline "12" and two other parameters: the body has the two.
C7_Witness ==
    /\ IsSend
    /\ call.method = "POST"
    /\ "deadline" \in DOMAIN call.params
    /\ "id" \in DOMAIN call.params
    /\ Len(call.requests) = 1
    /\ Len(call.requests[1].body) = 1
    /\ Len(call.requests[1].body[1]) = 2
    /\ call.timeout = 12

\* a and b differ by a multiple of w.
Congruent(a, b, w) ==
    \E k \in -(2^MaxZoom + 2) .. (2^MaxZoom + 2) : a - b = k * w

\* C8: the x component of the tile URL lies in [0, 2^z) and is congruent
\* to the x passed in modulo 2^z; y and z are written unchanged.
C8_TileXWrapped ==
    call.op = "getTileUrl" =>
        LET w  == 2^call.z
            ux == ParseD(call.result[7])
        IN  /\ ux \in 0..(w - 1)
            /\ Congruent(ux, call.x, w)
            /\ call.x = -1 => ux = w - 1
            /\ call.x = w => ux = 0
            /\ ParseD(call.result[5]) = call.z
            /\ ParseD(call.result[9]) = call.y

\* x = -1 at the deepest zoom level comes out as 2^z - 1.
C8_Witness ==
    /\ call.op = "getTileUrl"
    /\ call.x = -1
    /\ call.z = MaxZoom
    /\ call.result[7] = FormatD(2^MaxZoom - 1)

\* The value a field has by the arguments supplied since the last reset.
Expected(field, default) ==
    IF supplied[field] # None THEN supplied[field] ELSE default

\* C9: when not initialized, the three fields are None; when initialized,
\* both URLs are set and every field is the value most recently supplied
\* to initialize since the last reset, or its default (None for
\* credentials).  A send on an initialized configuration changes no field.
C9_ConfigFollowsSupplied ==
    /\ ~initialized =>
        /\ credentials = None
        /\ api_base_url = None
        /\ tile_base_url = None
    /\ initialized =>
        /\ api_base_url # None
        /\ tile_base_url # None
        /\ credentials = Expected("credentials", None)
        /\ api_base_url = Expected("api_base_url", DEFAULT_API_BASE_URL)
        /\ tile_base_url = Expected("tile_base_url", DEFAULT_TILE_BASE_URL)
    /\ (IsSend /\ call.pre.initialized) => Config = call.pre

\* A send on a configuration with credentials and a custom API URL.
C9_Witness ==
    /\ IsSend
    /\ call.pre.initialized
    /\ credentials = "credA"
    /\ api_base_url = "http://api.X2"
    /\ tile_base_url = DEFAULT_TILE_BASE_URL

\* C10 as stated: with credentials configured, a send with an invalid
\* method fails without the credentials having been asked to authorize;
\* only sends that make an HTTP request ask for authorization.
C10_MethodCheckBeforeAuthorize ==
    IsSend =>
        /\ (credentials # None /\ call.method \notin {"GET", "POST"}) =>
            /\ IsInvalidMethodError(call.outcome, call.method)
            /\ \A i \in 1..Len(call.events) : call.events[i] # "authorize"
        /\ (\E i \in 1..Len(call.events) : call.events[i] = "authorize") =>
            (\E i \in 1..Len(call.events) : call.events[i] = "request")

\* C10 amended: authorization comes before the method check.  With
\* credentials configured every send asks them to authorize, first and
\* once, also a send with an invalid method, which then fails without an
\* HTTP request; without credentials no send asks for authorization.
C10_AuthorizeBeforeMethodCheck ==
    IsSend =>
        LET auth == IF credentials # None THEN <<"authorize">> ELSE <<>>
        IN  IF call.method \in {"GET", "POST"}
            THEN call.events = auth \o <<"request">>
            ELSE /\ call.events = auth
                 /\ IsInvalidMethodError(call.outcome, call.method)

\* A PUT with credentials configured: authorized, then rejected.
C10_Witness ==
    /\ IsSend
    /\ call.method = "PUT"
    /\ credentials = "credA"
    /\ call.events = <<"authorize">>
    /\ call.requests = <<>>

====
